---- MODULE Spec2Model ----
(***************************************************************************)
(* Retrieval core of ADM-HW3: the text normaliser, the two vocabulary      *)
(* builders, the two inverted-index builders, boolean (conjunctive) search *)
(* and ranked cosine search.                                               *)
(*                                                                         *)
(* Strings are sequences of code points, so that str comparison (sorted),  *)
(* len, lower, isalnum and the substring test against string.punctuation   *)
(* are computed as Python computes them.  A text is the sequence of tokens *)
(* word_tokenize splits it into; ' '.join and str.split are concatenation  *)
(* and identity at that granularity.                                       *)
(***************************************************************************)
EXTENDS Integers, Sequences, FiniteSets, TLC

VARIABLES
    phase,                  \* which family of functions this run exercises
    df,                     \* the corpus: df['description'], row label = position from 0
    vocabulary_csv,         \* file 'vocabulary.csv' (conj_search_engine), NoFile before it is written
    vocabulary_rse_csv,     \* file 'vocabulary_rse.csv' (rank_search_engine)
    inverted_index,         \* dict term_id -> list of restaurant ids (conj_search_engine)
    tfidf_matrix,           \* document x term weight matrix handed to rank_search_engine
    terms,                  \* column names of tfidf_matrix
    inverted_index_rse,     \* dict term -> list of (doc_id, score) (rank_search_engine)
    inverted_index_pkl,     \* file 'inverted_index.pkl'
    last                    \* the last call: its name, arguments, return value, exception

vars == <<phase, df, vocabulary_csv, vocabulary_rse_csv, inverted_index,
          tfidf_matrix, terms, inverted_index_rse, inverted_index_pkl, last>>

(***************************************************************************)
(* Bounds of the model.                                                    *)
(***************************************************************************)
MaxDocs == 2        \* documents in the corpus / rows of the weight matrix
MaxFreq == 2        \* min_frequency and max_frequency range over 0..MaxFreq
MaxK    == 2        \* k ranges over -1..MaxK

\* a file that was never written, and a written file with its rows
NoFile == [exists |-> FALSE, rows |-> <<>>]
File(rows) == [exists |-> TRUE, rows |-> rows]
None   == "None"

(***************************************************************************)
(* The lexicon: the words the sample texts are written with.               *)
(***************************************************************************)
w_the     == <<116, 104, 101>>
w_The     == <<84, 104, 101>>
w_italian == <<105, 116, 97, 108, 105, 97, 110>>
w_pizza   == <<112, 105, 122, 122, 97>>
w_pizzas  == <<112, 105, 122, 122, 97, 115>>
w_Pasta   == <<80, 97, 115, 116, 97>>
w_pasta   == <<112, 97, 115, 116, 97>>
w_ox      == <<111, 120>>
w_comma   == <<44>>
w_0hello  == <<48, 104, 101, 108, 108, 111>>
w_doings  == <<100, 111, 105, 110, 103, 115>>
w_do      == <<100, 111>>
w_sushi   == <<115, 117, 115, 104, 105>>

(***************************************************************************)
(* Python str primitives.                                                  *)
(***************************************************************************)
\* string.punctuation
punctuation ==
    <<33, 34, 35, 36, 37, 38, 39, 40, 41, 42, 43, 44, 45, 46, 47,
      58, 59, 60, 61, 62, 63, 64, 91, 92, 93, 94, 95, 96, 123, 124, 125, 126>>

\* `w in s` for two str: w is a contiguous substring of s
StrIn(w, s) ==
    \/ Len(w) = 0
    \/ \E i \in 1..(Len(s) - Len(w) + 1) : SubSeq(s, i, i + Len(w) - 1) = w

IsDigit(c) == c >= 48 /\ c <= 57
IsUpper(c) == c >= 65 /\ c <= 90
IsLowerC(c) == c >= 97 /\ c <= 122

\* str.isalnum (ASCII)
isalnum(w) ==
    /\ Len(w) > 0
    /\ \A i \in 1..Len(w) : IsDigit(w[i]) \/ IsUpper(w[i]) \/ IsLowerC(w[i])

\* str.lower (ASCII)
lower(w) == [i \in 1..Len(w) |-> IF IsUpper(w[i]) THEN w[i] + 32 ELSE w[i]]

\* \w of the regular expression
IsWordChar(c) == IsDigit(c) \/ IsUpper(c) \/ IsLowerC(c) \/ c = 95

\* a < b for two str: lexicographic by code point, a proper prefix first
RECURSIVE StrLess(_, _)
StrLess(a, b) ==
    IF Len(a) = 0 THEN Len(b) > 0
    ELSE IF Len(b) = 0 THEN FALSE
    ELSE IF a[1] # b[1] THEN a[1] < b[1]
    ELSE StrLess(Tail(a), Tail(b))

\* sorted with the comparison turned round
RECURSIVE sorted_descending(_)
sorted_descending(S) ==
    IF S = {} THEN <<>>
    ELSE LET m == CHOOSE x \in S : \A y \in S : y = x \/ StrLess(y, x)
         IN  <<m>> \o sorted_descending(S \ {m})

\* sorted(set(...)) of str: ascending, by repeatedly taking the least element
RECURSIVE sorted(_)
sorted(S) ==
    IF S = {} THEN <<>>
    ELSE LET m == CHOOSE x \in S : \A y \in S : y = x \/ StrLess(x, y)
         IN  <<m>> \o sorted(S \ {m})

Range(s) == {s[i] : i \in 1..Len(s)}

\* ' '.join(list of texts): the token sequences one after the other
RECURSIVE join(_)
join(texts) ==
    IF texts = <<>> THEN <<>> ELSE texts[1] \o join(Tail(texts))

\* Counter(word_list)[w]
RECURSIVE Count(_, _)
Count(w, s) ==
    IF s = <<>> THEN 0
    ELSE (IF s[1] = w THEN 1 ELSE 0) + Count(w, Tail(s))

(***************************************************************************)
(* preprocess_text (the same function in both modules).                    *)
(***************************************************************************)
\* stopwords.words("english"): the entries the lexicon meets
stop_words == {w_the, w_do}

\* SnowballStemmer("english").stem on the lexicon: lower-cases, strips the
\* plural s and the ing suffix
stem(w) ==
    LET l == lower(w) IN
    IF l = w_pizzas THEN w_pizza
    ELSE IF l = w_doings THEN w_do
    ELSE l

\* re.sub(r'\b0\w*\b', '', text) on one token: a token that starts with the
\* digit 0 loses its leading run of word characters; an emptied token is gone
RECURSIVE DropWordChars(_)
DropWordChars(w) ==
    IF w # <<>> /\ IsWordChar(w[1]) THEN DropWordChars(Tail(w)) ELSE w

RemoveZeroWord(w) ==
    IF w # <<>> /\ w[1] = 48 THEN DropWordChars(w) ELSE w

Kept(word) ==
    /\ word \notin stop_words
    /\ ~StrIn(word, punctuation)
    /\ isalnum(word)
    /\ Len(word) > 2

preprocess_text(text) ==
    LET lowered  == [i \in 1..Len(text) |-> lower(text[i])]
        stripped == [i \in 1..Len(lowered) |-> RemoveZeroWord(lowered[i])]
        words    == SelectSeq(stripped, LAMBDA w : w # <<>>)
        kept     == SelectSeq(words, Kept)
    IN  [i \in 1..Len(kept) |-> stem(kept[i])]

(***************************************************************************)
(* Sample inputs.                                                          *)
(***************************************************************************)
\* restaurant descriptions
Descriptions ==
    { <<w_italian, w_pizza>>,
      <<w_the, w_italian, w_pizzas, w_comma, w_pizza>>,
      <<w_Pasta, w_0hello, w_ox>>,
      <<w_italian, w_pasta, w_pasta>>,
      <<w_doings>>,
      <<w_The, w_comma>> }

\* query strings
Queries ==
    { <<w_italian, w_pizza>>,
      <<w_pizzas, w_pizza>>,
      <<w_pasta>>,
      <<w_sushi, w_italian>>,
      <<w_sushi>>,
      <<w_the>>,
      <<w_italian, w_pasta, w_pizza>> }

(***************************************************************************)
(* Vocabulary files.                                                       *)
(***************************************************************************)
\* pd.DataFrame({'term_id': range(len(unique_terms)), 'term': unique_terms})
\* written with to_csv(index=False): one row per term, in list order
vocab_df(unique_terms) ==
    [i \in 1..Len(unique_terms) |-> [term_id |-> i - 1, term |-> unique_terms[i]]]

\* the csv.DictReader loop: vocabulary[row['term']] = int(row['term_id']);
\* a later row of the same term overwrites an earlier one
LoadVocabulary(rows) ==
    [t \in {rows[i].term : i \in 1..Len(rows)} |->
        LET n == CHOOSE i \in 1..Len(rows) :
                    /\ rows[i].term = t
                    /\ \A j \in (i + 1)..Len(rows) : rows[j].term # t
        IN  rows[n].term_id]

\* conj_search_engine.create_vocabulary: every distinct normalised term
conj_unique_terms(descriptions) ==
    sorted(Range(preprocess_text(join(descriptions))))

conj_create_vocabulary(descriptions) == vocab_df(conj_unique_terms(descriptions))

\* frequent_words with both comparisons strict
frequent_words_strict(word_list, min_frequency, max_frequency) ==
    {word \in Range(word_list) :
        /\ Count(word, word_list) > min_frequency
        /\ Count(word, word_list) < max_frequency}

\* frequent_words without the test against max_frequency
frequent_words_no_max(word_list, min_frequency, max_frequency) ==
    {word \in Range(word_list) : Count(word, word_list) >= min_frequency}

\* rank_search_engine.create_vocabulary: the words whose count in the
\* normalised concatenated corpus lies in [min_frequency, max_frequency]
frequent_words(word_list, min_frequency, max_frequency) ==
    {word \in Range(word_list) :
        /\ Count(word, word_list) >= min_frequency
        /\ Count(word, word_list) <= max_frequency}

rank_unique_terms(corpus, min_frequency, max_frequency) ==
    sorted(frequent_words(preprocess_text(join(corpus)), min_frequency, max_frequency))

rank_create_vocabulary(corpus, min_frequency, max_frequency) ==
    vocab_df(rank_unique_terms(corpus, min_frequency, max_frequency))

(***************************************************************************)
(* conj_search_engine.build_inverted_index                                 *)
(***************************************************************************)
EmptyDict == <<>>

\* IndexTerm without the test `restaurant_id not in inverted_index[term_id]`
IndexTerm_always_append(index, vocabulary, restaurant_id, term) ==
    IF term \in DOMAIN vocabulary
    THEN LET term_id == vocabulary[term] IN
         IF term_id \notin DOMAIN index
         THEN index @@ (term_id :> <<restaurant_id>>)
         ELSE [index EXCEPT ![term_id] = Append(@, restaurant_id)]
    ELSE index

\* lines 149-158 for one (restaurant_id, term)
IndexTerm(index, vocabulary, restaurant_id, term) ==
    IF term \in DOMAIN vocabulary
    THEN LET term_id == vocabulary[term] IN
         IF term_id \notin DOMAIN index
         THEN index @@ (term_id :> <<restaurant_id>>)
         ELSE IF restaurant_id \notin Range(index[term_id])
              THEN [index EXCEPT ![term_id] = Append(@, restaurant_id)]
              ELSE index
    ELSE index

\* the inner loop: the terms of one description, in order
RECURSIVE IndexDescription(_, _, _, _)
IndexDescription(index, vocabulary, restaurant_id, description) ==
    IF description = <<>> THEN index
    ELSE IndexDescription(IndexTerm(index, vocabulary, restaurant_id, lower(description[1])),
                          vocabulary, restaurant_id, Tail(description))

\* the outer loop: enumerate(processed_descriptions), restaurant_id from n
RECURSIVE IndexFrom(_, _, _, _)
IndexFrom(index, vocabulary, n, descriptions) ==
    IF descriptions = <<>> THEN index
    ELSE IndexFrom(IndexDescription(index, vocabulary, n, descriptions[1]),
                   vocabulary, n + 1, Tail(descriptions))

conj_build_inverted_index(processed_descriptions, rows) ==
    IndexFrom(EmptyDict, LoadVocabulary(rows), 0, processed_descriptions)

\* the caller's argument: df['description'] normalised row by row
ProcessedDescriptions(descriptions) ==
    [i \in 1..Len(descriptions) |-> preprocess_text(descriptions[i])]

(***************************************************************************)
(* conj_search_engine.search_restaurants                                   *)
(***************************************************************************)
\* matching_restaurant_ids: None, or a set of restaurant ids
NoMatching == [none |-> TRUE, ids |-> {}]
Matching(S) == [none |-> FALSE, ids |-> S]

\* Narrow with update (union) in place of intersection_update
Narrow_union(matching, vocabulary, index, term) ==
    IF term \in DOMAIN vocabulary /\ vocabulary[term] \in DOMAIN index
    THEN Matching(matching.ids \cup Range(index[vocabulary[term]]))
    ELSE matching

\* Narrow where a term that does not resolve empties the result
Narrow_unresolved_empties(matching, vocabulary, index, term) ==
    IF term \in DOMAIN vocabulary /\ vocabulary[term] \in DOMAIN index
    THEN IF matching.none
         THEN Matching(Range(index[vocabulary[term]]))
         ELSE Matching(matching.ids \cap Range(index[vocabulary[term]]))
    ELSE Matching({})

\* lines 212-218 for one query term
Narrow(matching, vocabulary, index, term) ==
    IF term \in DOMAIN vocabulary
    THEN LET term_id == vocabulary[term] IN
         IF term_id \in DOMAIN index
         THEN IF matching.none
              THEN Matching(Range(index[term_id]))
              ELSE Matching(matching.ids \cap Range(index[term_id]))
         ELSE matching
    ELSE matching

\* the loop over query_terms, in the order the set iterates
RECURSIVE MatchingIds(_, _, _, _)
MatchingIds(matching, vocabulary, index, order) ==
    IF order = <<>> THEN matching
    ELSE MatchingIds(Narrow(matching, vocabulary, index, order[1]),
                     vocabulary, index, Tail(order))

\* the orders a Python set of these terms may iterate in
Orders(S) ==
    {o \in [1..Cardinality(S) -> S] : \A i, j \in 1..Cardinality(S) : i # j => o[i] # o[j]}

query_terms(query) == Range(preprocess_text(query))

\* line 216 without the copy: matching_restaurant_ids is the posting list itself
SeededFrom_alias(term_id) == {term_id}

\* line 216: the keys of inverted_index whose posting list is the same object
\* as matching_restaurant_ids; set(...) builds a new object, so there is none
SeededFrom(term_id) == {}

\* the term id whose postings seed matching_restaurant_ids (lines 212-216)
RECURSIVE FirstResolved(_, _, _)
FirstResolved(vocabulary, index, order) ==
    IF order = <<>> THEN {}
    ELSE IF order[1] \in DOMAIN vocabulary /\ vocabulary[order[1]] \in DOMAIN index
         THEN {vocabulary[order[1]]}
         ELSE FirstResolved(vocabulary, index, Tail(order))

\* the caller's inverted_index as the call leaves it: intersection_update of
\* line 218 narrows in place every object matching_restaurant_ids is shared with
IndexAfterSearch(order, index, rows) ==
    LET vocabulary == LoadVocabulary(rows)
        m == MatchingIds(NoMatching, vocabulary, index, order)
        shared == UNION {SeededFrom(term_id) : term_id \in FirstResolved(vocabulary, index, order)}
    IN  [term_id \in DOMAIN index |->
            IF term_id \in shared
            THEN SelectSeq(index[term_id], LAMBDA restaurant_id : restaurant_id \in m.ids)
            ELSE index[term_id]]

\* the row labels of the returned DataFrame, or the exception raised
search_restaurants(order, index, descriptions, rows) ==
    LET m == MatchingIds(NoMatching, LoadVocabulary(rows), index, order) IN
    IF m.none \/ m.ids = {}
    THEN [ret |-> {}, raised |-> None]
    ELSE IF m.ids \subseteq 0..(Len(descriptions) - 1)
         THEN [ret |-> m.ids, raised |-> None]
         ELSE [ret |-> {}, raised |-> "KeyError"]

(***************************************************************************)
(* rank_search_engine.build_inverted_index                                 *)
(***************************************************************************)
\* the columns of the sample weight matrices
Terms == <<w_italian, w_pasta, w_pizza>>

\* rows of TF-IDF weights (scaled to integers), one weight per term
Rows ==
    { <<1, 0, 1>>, <<2, 0, 2>>, <<1, 0, 2>>, <<0, 2, 0>>, <<1, 1, 0>>, <<0, 0, 0>>,
      <<2, 0, 0>> }

\* the query weight vectors tfidf_query
QueryVectors ==
    { <<0, 0, 0>>, <<1, 0, 0>>, <<1, 0, 1>>, <<0, 1, 2>>, <<2, 1, 0>>, <<1, 1, 0>> }

\* nonzero that returns every row
nonzero_every_row(matrix, term_idx) == [i \in 1..Len(matrix) |-> i - 1]

\* term_column.nonzero()[0]: the rows with a nonzero entry, ascending
nonzero(matrix, term_idx) ==
    SelectSeq([i \in 1..Len(matrix) |-> i - 1],
              LAMBDA doc_id : matrix[doc_id + 1][term_idx + 1] # 0)

\* Postings that lists every row of the matrix, zero entries included
Postings_every_row(matrix, term_idx) ==
    [i \in 1..Len(matrix) |-> <<i - 1, matrix[i][term_idx + 1]>>]

\* Postings that reads every weight from the first column of the matrix
Postings_first_column(matrix, term_idx) ==
    LET non_zero_entries == nonzero(matrix, term_idx) IN
    [i \in 1..Len(non_zero_entries) |->
        <<non_zero_entries[i], matrix[non_zero_entries[i] + 1][1]>>]

\* lines 160-162: [(doc_id, term_column[doc_id, 0]) for doc_id in non_zero_entries]
Postings(matrix, term_idx) ==
    LET non_zero_entries == nonzero(matrix, term_idx) IN
    [i \in 1..Len(non_zero_entries) |->
        <<non_zero_entries[i], matrix[non_zero_entries[i] + 1][term_idx + 1]>>]

\* the loop over enumerate(terms), from term_idx on; an assignment to a key
\* already present replaces its list
RECURSIVE RankIndexFrom(_, _, _, _)
RankIndexFrom(index, matrix, term_list, term_idx) ==
    IF term_idx >= Len(term_list) THEN index
    ELSE RankIndexFrom((term_list[term_idx + 1] :> Postings(matrix, term_idx)) @@ index,
                       matrix, term_list, term_idx + 1)

rank_build_inverted_index(matrix, term_list) ==
    RankIndexFrom(EmptyDict, matrix, term_list, 0)

(***************************************************************************)
(* rank_search_engine.rank_restaurants_by_query_similarity                 *)
(***************************************************************************)
RECURSIVE SumSquares(_)
SumSquares(v) == IF v = <<>> THEN 0 ELSE v[1] * v[1] + SumSquares(Tail(v))

\* position of doc_id among the keys of doc_scores, 0 when absent
RECURSIVE KeyPos(_, _, _)
KeyPos(doc_scores, doc_id, i) ==
    IF i > Len(doc_scores) THEN 0
    ELSE IF doc_scores[i][1] = doc_id THEN i
    ELSE KeyPos(doc_scores, doc_id, i + 1)

\* Accumulate that assigns the product in place of adding it
Accumulate_overwrite(doc_scores, doc_id, product) ==
    LET p == KeyPos(doc_scores, doc_id, 1) IN
    IF p = 0 THEN Append(doc_scores, <<doc_id, product>>)
    ELSE [doc_scores EXCEPT ![p] = <<doc_id, product>>]

\* lines 205-207: doc_scores is a dict, kept here in insertion order
Accumulate(doc_scores, doc_id, product) ==
    LET p == KeyPos(doc_scores, doc_id, 1) IN
    IF p = 0 THEN Append(doc_scores, <<doc_id, product>>)
    ELSE [doc_scores EXCEPT ![p] = <<doc_id, @[2] + product>>]

\* line 203: the walk over one postings list
RECURSIVE WalkPostings(_, _, _)
WalkPostings(doc_scores, query_score, postings) ==
    IF postings = <<>> THEN doc_scores
    ELSE WalkPostings(Accumulate(doc_scores, postings[1][1], query_score * postings[1][2]),
                      query_score, Tail(postings))

\* DocScores with the test `query_score >= 0`
RECURSIVE DocScores_zero_weights_too(_, _, _, _, _)
DocScores_zero_weights_too(doc_scores, tfidf_query, term_list, index, term_idx) ==
    IF term_idx >= Len(tfidf_query) THEN doc_scores
    ELSE LET query_score == tfidf_query[term_idx + 1]
             next == IF query_score >= 0 /\ term_list[term_idx + 1] \in DOMAIN index
                     THEN WalkPostings(doc_scores, query_score, index[term_list[term_idx + 1]])
                     ELSE doc_scores
         IN  DocScores_zero_weights_too(next, tfidf_query, term_list, index, term_idx + 1)

\* lines 199-207: the loop over enumerate(tfidf_query), from term_idx on
RECURSIVE DocScores(_, _, _, _, _)
DocScores(doc_scores, tfidf_query, term_list, index, term_idx) ==
    IF term_idx >= Len(tfidf_query) THEN doc_scores
    ELSE LET query_score == tfidf_query[term_idx + 1]
             next == IF query_score > 0 /\ term_list[term_idx + 1] \in DOMAIN index
                     THEN WalkPostings(doc_scores, query_score, index[term_list[term_idx + 1]])
                     ELSE doc_scores
         IN  DocScores(next, tfidf_query, term_list, index, term_idx + 1)

\* A cosine similarity dot / (query_norm * doc_norm) is kept exactly, as the
\* dot product and the squared product of the two norms.
Cosine(dot_product, query_norm2, doc_norm2) ==
    [dot |-> dot_product, norm2 |-> query_norm2 * doc_norm2]

\* a > b for two similarities with non-negative dot products and nonzero norms
ScoreGreater(a, b) == a.dot * a.dot * b.norm2 > b.dot * b.dot * a.norm2

\* lines 210-213
cosine_similarities(doc_scores, matrix, tfidf_query) ==
    [i \in 1..Len(doc_scores) |->
        <<doc_scores[i][1],
          Cosine(doc_scores[i][2], SumSquares(tfidf_query),
                 SumSquares(matrix[doc_scores[i][1] + 1]))>>]

\* InsertDesc that puts an item in front of the items of equal score
RECURSIVE InsertDesc_before_ties(_, _)
InsertDesc_before_ties(sorted_items, item) ==
    IF sorted_items = <<>> THEN <<item>>
    ELSE IF ~ScoreGreater(sorted_items[1][2], item[2])
         THEN <<item>> \o sorted_items
         ELSE <<sorted_items[1]>> \o InsertDesc_before_ties(Tail(sorted_items), item)

\* sorted(items, key=lambda x: x[1], reverse=True): descending and stable, an
\* item goes behind every item whose score is not smaller
RECURSIVE InsertDesc(_, _)
InsertDesc(sorted_items, item) ==
    IF sorted_items = <<>> THEN <<item>>
    ELSE IF ScoreGreater(item[2], sorted_items[1][2])
         THEN <<item>> \o sorted_items
         ELSE <<sorted_items[1]>> \o InsertDesc(Tail(sorted_items), item)

RECURSIVE SortDesc(_, _)
SortDesc(sorted_items, items) ==
    IF items = <<>> THEN sorted_items
    ELSE SortDesc(InsertDesc(sorted_items, items[1]), Tail(items))

sorted_by_score(items) == SortDesc(<<>>, items)

\* the slice items[:k + 1]
Slice_one_more(items, k) ==
    SubSeq(items, 1, IF k + 1 < Len(items) THEN k + 1 ELSE Len(items))

\* the slice items[:k]
Slice(items, k) ==
    IF k >= 0
    THEN SubSeq(items, 1, IF k < Len(items) THEN k ELSE Len(items))
    ELSE SubSeq(items, 1, IF Len(items) + k > 0 THEN Len(items) + k ELSE 0)

\* line 216
top_k_docs(similarities, k) == Slice(sorted_by_score(similarities), k)

\* the (row label, Similarity Score) pairs of the returned DataFrame, in order
rank_restaurants_by_query_similarity(matrix, tfidf_query, term_list, index, k) ==
    top_k_docs(cosine_similarities(DocScores(<<>>, tfidf_query, term_list, index, 0),
                                   matrix, tfidf_query), k)

\* the weight matrices of up to n rows
RECURSIVE Matrices(_)
Matrices(n) ==
    IF n = 0 THEN {<<>>}
    ELSE LET smaller == Matrices(n - 1) IN
         smaller \cup {Append(m, r) : m \in {x \in smaller : Len(x) = n - 1}, r \in Rows}

(***************************************************************************)
(* The state machine.                                                      *)
(***************************************************************************)
Call(op, args, ret, raised) ==
    [op |-> op, args |-> args, ret |-> ret, raised |-> raised]

\* The functions share no state across these three groups (each module reads
\* and writes its own vocabulary file; the matrix functions take the weight
\* matrix as an argument), so a run exercises one group.
Phases == {"conj", "rank_vocabulary", "rank_query"}

Init ==
    /\ phase \in Phases
    /\ df = <<>>
    /\ vocabulary_csv = NoFile
    /\ vocabulary_rse_csv = NoFile
    /\ inverted_index = EmptyDict
    /\ IF phase = "rank_query"
       THEN /\ tfidf_matrix \in {m \in Matrices(MaxDocs) : Len(m) >= 1}
            /\ terms = Terms
       ELSE tfidf_matrix = <<>> /\ terms = <<>>
    /\ inverted_index_rse = EmptyDict
    /\ inverted_index_pkl = NoFile
    /\ last = Call("start", <<>>, None, None)

\* the corpus table gains a row between two calls
ChangeCorpus ==
    /\ phase \in {"conj", "rank_vocabulary"}
    /\ Len(df) < MaxDocs
    /\ \E description \in Descriptions : df' = Append(df, description)
    /\ last' = Call("change_corpus", <<>>, None, None)
    /\ UNCHANGED <<phase, vocabulary_csv, vocabulary_rse_csv, inverted_index,
                   tfidf_matrix, terms, inverted_index_rse, inverted_index_pkl>>

\* conj_search_engine.create_vocabulary(df)
ConjCreateVocabulary ==
    /\ phase = "conj"
    /\ vocabulary_csv' = File(conj_create_vocabulary(df))
    /\ last' = Call("conj.create_vocabulary", <<>>, None, None)
    /\ UNCHANGED <<phase, df, vocabulary_rse_csv, inverted_index,
                   tfidf_matrix, terms, inverted_index_rse, inverted_index_pkl>>

\* conj_search_engine.build_inverted_index(processed_descriptions)
ConjBuildInvertedIndex ==
    /\ phase = "conj"
    /\ IF ~vocabulary_csv.exists
       THEN /\ last' = Call("conj.build_inverted_index", <<>>, None, "FileNotFoundError")
            /\ UNCHANGED inverted_index
       ELSE /\ inverted_index' =
                    conj_build_inverted_index(ProcessedDescriptions(df), vocabulary_csv.rows)
            /\ last' = Call("conj.build_inverted_index", <<>>, None, None)
    /\ UNCHANGED <<phase, df, vocabulary_csv, vocabulary_rse_csv,
                   tfidf_matrix, terms, inverted_index_rse, inverted_index_pkl>>

\* conj_search_engine.search_restaurants(query, inverted_index, df)
SearchRestaurants ==
    /\ phase = "conj"
    /\ \E query \in Queries :
          IF ~vocabulary_csv.exists
          THEN /\ last' = Call("search_restaurants", [query |-> query], {}, "FileNotFoundError")
               /\ UNCHANGED inverted_index
          ELSE \E order \in Orders(query_terms(query)) :
                  LET r == search_restaurants(order, inverted_index, df, vocabulary_csv.rows)
                  IN  /\ last' = Call("search_restaurants", [query |-> query], r.ret, r.raised)
                      /\ inverted_index' =
                              IndexAfterSearch(order, inverted_index, vocabulary_csv.rows)
    /\ UNCHANGED <<phase, df, vocabulary_csv, vocabulary_rse_csv,
                   tfidf_matrix, terms, inverted_index_rse, inverted_index_pkl>>

\* rank_search_engine.create_vocabulary(corpus, min_frequency, max_frequency)
RankCreateVocabulary ==
    /\ phase = "rank_vocabulary"
    /\ \E min_frequency \in 0..MaxFreq, max_frequency \in 0..MaxFreq :
          /\ vocabulary_rse_csv' = File(rank_create_vocabulary(df, min_frequency, max_frequency))
          /\ last' = Call("rank.create_vocabulary",
                          [min_frequency |-> min_frequency, max_frequency |-> max_frequency],
                          None, None)
    /\ UNCHANGED <<phase, df, vocabulary_csv, inverted_index,
                   tfidf_matrix, terms, inverted_index_rse, inverted_index_pkl>>

\* rank_search_engine.build_inverted_index(tfidf_matrix, terms)
RankBuildInvertedIndex ==
    /\ phase = "rank_query"
    /\ inverted_index_rse' = rank_build_inverted_index(tfidf_matrix, terms)
    /\ inverted_index_pkl' = File(inverted_index_rse')
    /\ last' = Call("rank.build_inverted_index", <<>>, None, None)
    /\ UNCHANGED <<phase, df, vocabulary_csv, vocabulary_rse_csv, inverted_index,
                   tfidf_matrix, terms>>

\* rank_search_engine.rank_restaurants_by_query_similarity(tfidf_matrix,
\*     tfidf_query, terms, inverted_index, df, k)
RankRestaurants ==
    /\ phase = "rank_query"
    /\ \E tfidf_query \in QueryVectors, k \in (-1)..MaxK :
          last' = Call("rank_restaurants_by_query_similarity",
                       [tfidf_query |-> tfidf_query, k |-> k],
                       rank_restaurants_by_query_similarity(
                           tfidf_matrix, tfidf_query, terms, inverted_index_rse, k),
                       None)
    /\ UNCHANGED <<phase, df, vocabulary_csv, vocabulary_rse_csv, inverted_index,
                   tfidf_matrix, terms, inverted_index_rse, inverted_index_pkl>>

Next ==
    \/ ChangeCorpus
    \/ ConjCreateVocabulary
    \/ ConjBuildInvertedIndex
    \/ SearchRestaurants
    \/ RankCreateVocabulary
    \/ RankBuildInvertedIndex
    \/ RankRestaurants

Spec == Init /\ [][Next]_vars

(***************************************************************************)
(* Properties.                                                             *)
(***************************************************************************)
\* the state right after a search_restaurants call that could open the file
Searched == last.op = "search_restaurants" /\ vocabulary_csv.exists

\* the deduplicated query terms that are in the vocabulary file and whose
\* term id is a key of the index
ResolvedTerms(query) ==
    LET vocabulary == LoadVocabulary(vocabulary_csv.rows) IN
    {t \in query_terms(query) :
        t \in DOMAIN vocabulary /\ vocabulary[t] \in DOMAIN inverted_index}

\* the document ids of one resolved term's postings
PostingDocs(t) == Range(inverted_index[LoadVocabulary(vocabulary_csv.rows)[t]])

\* the documents that are in the postings of every term of T
InEveryPosting(T) ==
    {d \in UNION {PostingDocs(t) : t \in T} : \A t \in T : d \in PostingDocs(t)}

\* C1: when at least one deduplicated query term resolves, search_restaurants
\* returns exactly the documents that are in the posting set of every
\* resolved query term.
C1_SearchIsIntersection ==
    Searched =>
        LET R == ResolvedTerms(last.args.query) IN
        R # {} => last.raised = None /\ last.ret = InEveryPosting(R)

\* "italian pizza" over a corpus whose document 0 has both terms and whose
\* document 1 has only "italian", with the index built for that corpus
C1_Witness ==
    /\ Searched
    /\ last.args.query = <<w_italian, w_pizza>>
    /\ Len(df) = 2
    /\ inverted_index = conj_build_inverted_index(ProcessedDescriptions(df), vocabulary_csv.rows)
    /\ w_pizza \in Range(preprocess_text(df[1]))
    /\ w_italian \in Range(preprocess_text(df[1]))
    /\ w_pizza \notin Range(preprocess_text(df[2]))
    /\ w_italian \in Range(preprocess_text(df[2]))
    /\ last.ret = {0}

Ranked == last.op = "rank_restaurants_by_query_similarity"

\* the documents in the postings list of a query term with positive weight
TouchedDocs(tfidf_query) ==
    {d \in 0..(Len(tfidf_matrix) - 1) :
        \E j \in 1..Len(tfidf_query) :
            /\ tfidf_query[j] > 0
            /\ terms[j] \in DOMAIN inverted_index_rse
            /\ \E i \in 1..Len(inverted_index_rse[terms[j]]) :
                  inverted_index_rse[terms[j]][i][1] = d}

\* the dot product of the query with a row of the matrix, term by term
RECURSIVE Dot(_, _)
Dot(u, v) == IF u = <<>> THEN 0 ELSE u[1] * v[1] + Dot(Tail(u), Tail(v))

NonzeroDotDocs(tfidf_query) ==
    {d \in 0..(Len(tfidf_matrix) - 1) : Dot(tfidf_query, tfidf_matrix[d + 1]) # 0}

MinOf(a, b) == IF a < b THEN a ELSE b

\* C3: with k > 0 ranked search returns at most k results, in non-increasing
\* score order, and exactly min(k, number of touched documents) of them; with
\* the index built from the matrix the touched documents are the ones with a
\* nonzero dot product.
C3_TopKBoundedAndSorted ==
    (Ranked /\ last.args.k > 0) =>
        LET k == last.args.k
            q == last.args.tfidf_query
        IN  /\ Len(last.ret) <= k
            /\ \A i, j \in 1..Len(last.ret) :
                  i < j => ~ScoreGreater(last.ret[j][2], last.ret[i][2])
            /\ Len(last.ret) = MinOf(k, Cardinality(TouchedDocs(q)))
            /\ inverted_index_rse = rank_build_inverted_index(tfidf_matrix, terms)
                  => TouchedDocs(q) = NonzeroDotDocs(q)

\* two results whose scores differ, the document touched second ranked first
C3_Witness ==
    /\ Ranked
    /\ last.args.k = 2
    /\ Len(last.ret) = 2
    /\ ScoreGreater(last.ret[1][2], last.ret[2][2])
    /\ last.ret[1][1] > last.ret[2][1]

\* the state right after rank_search_engine.create_vocabulary
VocabularyBuilt == last.op = "rank.create_vocabulary"

\* the terms of a vocabulary file
FileTerms(file) == {file.rows[i].term : i \in 1..Len(file.rows)}

\* occurrences of a term summed over the documents, each normalised alone
RECURSIVE Occurrences(_, _)
Occurrences(t, corpus) ==
    IF corpus = <<>> THEN 0
    ELSE Count(t, preprocess_text(corpus[1])) + Occurrences(t, Tail(corpus))

\* number of documents whose normalised text has the term
DocumentFrequency(t, corpus) ==
    Cardinality({i \in 1..Len(corpus) : t \in Range(preprocess_text(corpus[i]))})

CorpusTerms(corpus) ==
    UNION {Range(preprocess_text(corpus[i])) : i \in 1..Len(corpus)}

\* C4: the frequency-filtered vocabulary holds exactly the normalised terms
\* of the corpus whose occurrence count c, summed over all documents, has
\* min_frequency <= c <= max_frequency.
C4_AdmittedIffCountInBand ==
    VocabularyBuilt =>
        /\ FileTerms(vocabulary_rse_csv) \subseteq CorpusTerms(df)
        /\ \A t \in CorpusTerms(df) :
              t \in FileTerms(vocabulary_rse_csv)
                  <=> /\ last.args.min_frequency <= Occurrences(t, df)
                      /\ Occurrences(t, df) <= last.args.max_frequency

\* min_frequency = max_frequency = 2: a term with two occurrences (one in
\* each document) is admitted, a term with three is not
C4_Witness ==
    /\ VocabularyBuilt
    /\ last.args.min_frequency = 2
    /\ last.args.max_frequency = 2
    /\ \E t \in FileTerms(vocabulary_rse_csv) :
          Occurrences(t, df) = 2 /\ DocumentFrequency(t, df) = 2
    /\ \E t \in CorpusTerms(df) \ FileTerms(vocabulary_rse_csv) : Occurrences(t, df) = 3

\* C5 as stated: every admitted term has a document frequency df with
\* min_frequency <= df <= max_frequency.
C5_AdmittedByDocumentFrequency ==
    VocabularyBuilt =>
        \A t \in FileTerms(vocabulary_rse_csv) :
            /\ last.args.min_frequency <= DocumentFrequency(t, df)
            /\ DocumentFrequency(t, df) <= last.args.max_frequency

\* C5 as amended: every admitted term has an occurrence count in
\* [min_frequency, max_frequency]; its document frequency is at least 1 and
\* at most max_frequency, and may be below min_frequency.
C5_AdmittedByOccurrenceCount ==
    VocabularyBuilt =>
        \A t \in FileTerms(vocabulary_rse_csv) :
            /\ last.args.min_frequency <= Occurrences(t, df)
            /\ Occurrences(t, df) <= last.args.max_frequency
            /\ 1 <= DocumentFrequency(t, df)
            /\ DocumentFrequency(t, df) <= last.args.max_frequency

\* a term admitted for its two occurrences in a single document
C5_Witness ==
    /\ VocabularyBuilt
    /\ \E t \in FileTerms(vocabulary_rse_csv) :
          /\ DocumentFrequency(t, df) < last.args.min_frequency
          /\ Occurrences(t, df) >= last.args.min_frequency

\* ids 0..N-1 in row order, terms strictly ascending (hence no term twice)
DenseAndSorted(file) ==
    /\ \A i \in 1..Len(file.rows) : file.rows[i].term_id = i - 1
    /\ \A i \in 1..(Len(file.rows) - 1) : StrLess(file.rows[i].term, file.rows[i + 1].term)
    /\ \A i, j \in 1..Len(file.rows) : i # j => file.rows[i].term # file.rows[j].term

\* C6: both vocabulary files map terms to ids one to one, the ids are
\* 0..N-1 without gap or duplicate, and the term with id i sorts strictly
\* before the term with id i+1.
C6_VocabularyDenseAndSorted ==
    /\ vocabulary_csv.exists => DenseAndSorted(vocabulary_csv)
    /\ vocabulary_rse_csv.exists => DenseAndSorted(vocabulary_rse_csv)

\* a vocabulary of three terms whose order of first occurrence in the corpus
\* is not the sorted order
C6_Witness ==
    /\ vocabulary_csv.exists
    /\ Len(vocabulary_csv.rows) >= 3
    /\ LET stream == preprocess_text(join(df)) IN
       Len(stream) > 1 /\ StrLess(stream[2], stream[1])
    /\ vocabulary_csv.rows = conj_create_vocabulary(df)

StrictlyAscending(ids) == \A i \in 1..(Len(ids) - 1) : ids[i] < ids[i + 1]

\* C7: in both inverted indexes the document ids of every postings list are
\* strictly ascending: one posting per document, in document-id order.
C7_PostingsAscendingNoDuplicates ==
    /\ \A term_id \in DOMAIN inverted_index : StrictlyAscending(inverted_index[term_id])
    /\ \A term \in DOMAIN inverted_index_rse :
          StrictlyAscending([i \in 1..Len(inverted_index_rse[term]) |->
                                inverted_index_rse[term][i][1]])

\* a term that occurs twice in document 0 and once in document 1
C7_Witness ==
    /\ Len(df) = 2
    /\ Count(w_pizza, preprocess_text(df[1])) = 2
    /\ Count(w_pizza, preprocess_text(df[2])) = 1
    /\ vocabulary_csv.exists
    /\ w_pizza \in FileTerms(vocabulary_csv)
    /\ LoadVocabulary(vocabulary_csv.rows)[w_pizza] \in DOMAIN inverted_index
    /\ inverted_index[LoadVocabulary(vocabulary_csv.rows)[w_pizza]] = <<0, 1>>

\* column j (from 1) of the weight matrix is all zero
ZeroColumn(j) == \A d \in 1..Len(tfidf_matrix) : tfidf_matrix[d][j] = 0

\* C8 as stated: every key of either inverted index has a non-empty postings
\* list.
C8_NoEmptyPostings ==
    /\ \A term_id \in DOMAIN inverted_index : inverted_index[term_id] # <<>>
    /\ \A term \in DOMAIN inverted_index_rse : inverted_index_rse[term] # <<>>

\* C8 as amended: every key of the boolean index has a non-empty postings
\* list; the ranked index has a key for every term of `terms`, and the
\* postings list of a term is empty exactly when the term has no nonzero
\* weight in the matrix.
C8_EmptyPostingsOnlyForZeroTerms ==
    /\ \A term_id \in DOMAIN inverted_index : inverted_index[term_id] # <<>>
    /\ inverted_index_pkl.exists =>
          /\ DOMAIN inverted_index_rse = Range(terms)
          /\ \A j \in 1..Len(terms) :
                inverted_index_rse[terms[j]] = <<>> <=> ZeroColumn(j)

\* a ranked index over two documents with a term of zero total weight
C8_Witness ==
    /\ inverted_index_pkl.exists
    /\ Len(tfidf_matrix) = 2
    /\ \E j \in 1..Len(terms) : ZeroColumn(j) /\ inverted_index_rse[terms[j]] = <<>>
    /\ \E j \in 1..Len(terms) : Len(inverted_index_rse[terms[j]]) = 2

\* C9: rank_search_engine.create_vocabulary called with
\* min_frequency > max_frequency raises an error.
C9_InvalidBoundsRaise ==
    (VocabularyBuilt /\ last.args.min_frequency > last.args.max_frequency)
        => last.raised # None

\* C10: ranked search called with k <= 0 raises an error and returns no
\* result list.
C10_InvalidKRaises ==
    (Ranked /\ last.args.k <= 0) => last.raised # None /\ last.ret = <<>>

\* the divisions of line 213 that the last ranked call performed, each given
\* by the squares of its two norms: one per scored document
Divisions ==
    LET q  == last.args.tfidf_query
        ds == DocScores(<<>>, q, terms, inverted_index_rse, 0)
    IN  [i \in 1..Len(ds) |->
            [query_norm2 |-> SumSquares(q),
             doc_norm2   |-> SumSquares(tfidf_matrix[ds[i][1] + 1])]]

\* C11: a query that normalises to zero terms returns an empty result and
\* raises nothing, in boolean mode (no query term) and in ranked mode (an all
\* zero weight vector, any k), where no division is performed at all.
C11_EmptyQueryEmptyResult ==
    /\ (Searched /\ query_terms(last.args.query) = {})
          => last.ret = {} /\ last.raised = None
    /\ (Ranked /\ \A j \in 1..Len(last.args.tfidf_query) : last.args.tfidf_query[j] = 0)
          => last.ret = <<>> /\ last.raised = None /\ Divisions = <<>>

\* an all zero query against a built index of two documents with postings
C11_Witness ==
    /\ Ranked
    /\ last.args.tfidf_query = <<0, 0, 0>>
    /\ last.args.k = 2
    /\ inverted_index_pkl.exists
    /\ \E j \in 1..Len(terms) : Len(inverted_index_rse[terms[j]]) = 2
    /\ last.ret = <<>>

\* every character of the term is a punctuation character
PurePunctuation(term) ==
    term # <<>> /\ \A i \in 1..Len(term) : StrIn(<<term[i]>>, punctuation)

\* the texts the last call passed through preprocess_text
NormalisedTexts ==
    IF last.op \in {"conj.create_vocabulary", "rank.create_vocabulary"}
    THEN Range(df)
    ELSE IF Searched THEN {last.args.query} ELSE {}

\* C12: no term of a preprocess_text output (after stemming) has length <= 2,
\* is pure punctuation, or is a stopword.
C12_OutputTermsFiltered ==
    \A text \in NormalisedTexts :
        \A term \in Range(preprocess_text(text)) :
            /\ Len(term) > 2
            /\ ~PurePunctuation(term)
            /\ term \notin stop_words

RECURSIVE PostingWeight(_, _)
PostingWeight(postings, d) ==
    IF postings = <<>> THEN 0
    ELSE (IF postings[1][1] = d THEN postings[1][2] ELSE 0) + PostingWeight(Tail(postings), d)

\* sum over the query terms t of positive weight, from column j on, of
\* query_weight(t) * doc_weight(d, t), the document weight read from the index
RECURSIVE WeightedSum(_, _, _)
WeightedSum(tfidf_query, d, j) ==
    IF j > Len(tfidf_query) THEN 0
    ELSE (IF tfidf_query[j] > 0 /\ terms[j] \in DOMAIN inverted_index_rse
          THEN tfidf_query[j] * PostingWeight(inverted_index_rse[terms[j]], d)
          ELSE 0) + WeightedSum(tfidf_query, d, j + 1)

\* doc_scores as the accumulation loop of the last ranked call left it
LastDocScores == DocScores(<<>>, last.args.tfidf_query, terms, inverted_index_rse, 0)

\* C14: after the accumulation loop the scored documents are exactly the ones
\* in the postings list of a query term of positive weight, each scored once,
\* and the dot product of each is the sum over those terms of query weight
\* times document weight; only scored documents are returned.
C14_AccumulationExact ==
    Ranked =>
        LET q  == last.args.tfidf_query
            ds == LastDocScores
        IN  /\ {ds[i][1] : i \in 1..Len(ds)} = TouchedDocs(q)
            /\ \A i, j \in 1..Len(ds) : ds[i][1] = ds[j][1] => i = j
            /\ \A i \in 1..Len(ds) : ds[i][2] = WeightedSum(q, ds[i][1], 1)
            /\ inverted_index_rse = rank_build_inverted_index(tfidf_matrix, terms)
                  => \A i \in 1..Len(ds) : ds[i][2] = Dot(q, tfidf_matrix[ds[i][1] + 1])
            /\ \A i \in 1..Len(last.ret) : last.ret[i][1] \in TouchedDocs(q)

\* one document reached through two query terms and scored with both
\* products, and another document that no query term reaches
C14_Witness ==
    /\ Ranked
    /\ last.args.tfidf_query = <<1, 0, 1>>
    /\ tfidf_matrix = << <<1, 0, 2>>, <<0, 2, 0>> >>
    /\ LastDocScores = << <<0, 3>> >>
    /\ Len(last.ret) = 1

\* the state once build_inverted_index has saved an index of the matrix
IndexBuilt == phase = "rank_query" /\ inverted_index_pkl.exists

\* C15: the ranked inverted index is the transpose of the nonzero entries of
\* the weight matrix: for the term of column j and a document d, (d, w) is in
\* the postings list iff matrix[d][j] is nonzero and w = matrix[d][j].
C15_IndexIsTranspose ==
    IndexBuilt =>
        /\ DOMAIN inverted_index_rse = Range(terms)
        /\ inverted_index_pkl.rows = inverted_index_rse
        /\ \A j \in 1..Len(terms) :
              LET postings == inverted_index_rse[terms[j]] IN
              /\ \A d \in 0..(Len(tfidf_matrix) - 1) :
                    tfidf_matrix[d + 1][j] # 0
                        <=> \E i \in 1..Len(postings) : postings[i][1] = d
              /\ \A i \in 1..Len(postings) :
                    /\ postings[i][1] \in 0..(Len(tfidf_matrix) - 1)
                    /\ postings[i][2] = tfidf_matrix[postings[i][1] + 1][j]
                    /\ \A i2 \in 1..Len(postings) : postings[i2][1] = postings[i][1] => i2 = i

\* an index built from two rows: a column with a zero and a nonzero entry,
\* and a column whose two weights differ from those of the first column
C15_Witness ==
    /\ IndexBuilt
    /\ tfidf_matrix = << <<1, 1, 0>>, <<1, 0, 2>> >>
    /\ inverted_index_rse[w_pasta] = << <<0, 1>> >>
    /\ inverted_index_rse[w_pizza] = << <<1, 2>> >>
    /\ inverted_index_rse[w_italian] = << <<0, 1>>, <<1, 1>> >>

\* C16: after any sequence of create_vocabulary, build_inverted_index and
\* search_restaurants calls, the vocabulary file rebuilt for a changed corpus
\* without a rebuild of the index included, every document search_restaurants
\* returns contains every resolved query term in its normalised description.
C16_ReturnedDocsContainQueryTerms ==
    (Searched /\ last.raised = None) =>
        \A restaurant_id \in last.ret :
            \A t \in ResolvedTerms(last.args.query) :
                t \in Range(preprocess_text(df[restaurant_id + 1]))

\* document d1 is first touched before document d2: the first occurrence of
\* d1 in the walk (query terms of positive weight by ascending term index,
\* each postings list in stored order) precedes every occurrence of d2
TouchedBefore(tfidf_query, d1, d2) ==
    \E j \in 1..Len(tfidf_query) :
        /\ tfidf_query[j] > 0
        /\ terms[j] \in DOMAIN inverted_index_rse
        /\ \E i \in 1..Len(inverted_index_rse[terms[j]]) :
              /\ inverted_index_rse[terms[j]][i][1] = d1
              /\ \A j2 \in 1..Len(tfidf_query) :
                    (tfidf_query[j2] > 0 /\ terms[j2] \in DOMAIN inverted_index_rse) =>
                        \A i2 \in 1..Len(inverted_index_rse[terms[j2]]) :
                            inverted_index_rse[terms[j2]][i2][1] = d2
                                => (j < j2 \/ (j = j2 /\ i < i2))

\* the cosine similarity of a touched document, from the index and the matrix
ScoreOf(tfidf_query, d) ==
    Cosine(WeightedSum(tfidf_query, d, 1), SumSquares(tfidf_query),
           SumSquares(tfidf_matrix[d + 1]))

ScoreEqual(a, b) == ~ScoreGreater(a, b) /\ ~ScoreGreater(b, a)

\* C17: ranked search breaks ties by first touch: returned documents of equal
\* score are in the order in which accumulation first touched them, and the
\* cut keeps the earlier ones: a touched document that is left out scores no
\* higher than any returned one and, at equal score, was first touched later.
\* The result is one list, fixed by the scores and the first-touch order.
C17_TiesInFirstTouchOrder ==
    Ranked =>
        LET q == last.args.tfidf_query
            returned == {last.ret[i][1] : i \in 1..Len(last.ret)}
        IN  /\ \A i, j \in 1..Len(last.ret) :
                  (i < j /\ ScoreEqual(last.ret[i][2], last.ret[j][2]))
                      => TouchedBefore(q, last.ret[i][1], last.ret[j][1])
            /\ \A i \in 1..Len(last.ret) : last.ret[i][2] = ScoreOf(q, last.ret[i][1])
            /\ \A d \in TouchedDocs(q) \ returned :
                  \A i \in 1..Len(last.ret) :
                      /\ ~ScoreGreater(ScoreOf(q, d), last.ret[i][2])
                      /\ ScoreEqual(ScoreOf(q, d), last.ret[i][2])
                            => TouchedBefore(q, last.ret[i][1], d)

\* two documents of equal score, document 1 touched first (by the first query
\* term) and document 0 second: the cut at k = 1 keeps document 1
C17_Witness ==
    /\ Ranked
    /\ tfidf_matrix = << <<0, 2, 0>>, <<2, 0, 0>> >>
    /\ last.args.tfidf_query = <<1, 1, 0>>
    /\ last.args.k = 1
    /\ ScoreEqual(ScoreOf(last.args.tfidf_query, 0), ScoreOf(last.args.tfidf_query, 1))
    /\ Len(last.ret) = 1
    /\ last.ret[1][1] = 1

\* C18: with the index built from the weight matrix that is passed to the
\* query, every division of line 213 has a nonzero query norm (some query
\* weight is positive) and a nonzero document norm (the row has a nonzero
\* weight).
C18_NoDivisionByZero ==
    (Ranked /\ inverted_index_rse = rank_build_inverted_index(tfidf_matrix, terms)) =>
        \A i \in 1..Len(Divisions) :
            /\ Divisions[i].query_norm2 # 0
            /\ \E j \in 1..Len(last.args.tfidf_query) : last.args.tfidf_query[j] > 0
            /\ Divisions[i].doc_norm2 # 0
            /\ \E j \in 1..Len(terms) : tfidf_matrix[LastDocScores[i][1] + 1][j] # 0

\* a matrix with an all zero row and a nonzero row, queried with its built
\* index: one division, for the nonzero row
C18_Witness ==
    /\ Ranked
    /\ inverted_index_pkl.exists
    /\ tfidf_matrix = << <<0, 0, 0>>, <<1, 0, 2>> >>
    /\ last.args.tfidf_query = <<1, 0, 1>>
    /\ Len(Divisions) = 1
    /\ LastDocScores[1][1] = 1
    /\ Len(last.ret) = 1

====
